---- MODULE Spec2Model ----
(***************************************************************************)
(* A model of the two scanners of the repository:                          *)
(*   dpkg.Scanner.Scan                 (src/dpkg/scanner.go)               *)
(*   ubuntu.DistributionScanner.Scan   (src/ubuntu/distributionscanner.go) *)
(* One behaviour is one call of Scan on one layer (and, under SpecRescan,  *)
(* a second call on the same layer).  A tar entry name is the sequence of  *)
(* its '/'-separated elements, a file's bytes are a content id.            *)
(***************************************************************************)
EXTENDS Integers, Sequences, FiniteSets, TLC

\* ------------------------------------------------------------------ bounds
MaxEntries == 4
MaxWords == 3

\* ------------------------------------------------------------- path/filepath
\* filepath.Clean on names without "..": the "." elements go; "" becomes ".".
RECURSIVE DropDots(_)
DropDots(path) ==
    IF path = <<>> THEN <<>>
    ELSE IF Head(path) = "." THEN DropDots(Tail(path))
    ELSE <<Head(path)>> \o DropDots(Tail(path))

Clean(path) == IF DropDots(path) = <<>> THEN <<".">> ELSE DropDots(path)

Base(path) == IF path = <<>> THEN "." ELSE path[Len(path)]

Dir(path) == IF path = <<>> THEN <<".">> ELSE Clean(SubSeq(path, 1, Len(path) - 1))

Join(dir, elem) == Clean(dir \o <<elem>>)

\* strings.HasPrefix(name, prefix) for a prefix that ends in a separator:
\* pre is the prefix without its trailing separator.
HasPrefix(name, pre) ==
    /\ Len(name) > Len(pre)
    /\ SubSeq(name, 1, Len(pre)) = pre

\* strings.HasSuffix(h.Name, ".md5sums"), on the file names of the model.
HasSuffix(name) ==
    name # <<>> /\ name[Len(name)] \in {"foo.md5sums", "foo:amd64.md5sums", "baz.md5sums"}

\* strings.TrimSuffix(n, ".md5sums")
TrimSuffix(n) ==
    CASE n = "foo.md5sums" -> "foo"
      [] n = "foo:amd64.md5sums" -> "foo:amd64"
      [] n = "baz.md5sums" -> "baz"
      [] OTHER -> n

\* if i := strings.IndexRune(n, ':'); i != -1 { n = n[:i] }
CutArch(n) ==
    CASE n = "foo:amd64" -> "foo"
      [] OTHER -> n

\* ------------------------------------------------------------ file contents
\* A file's bytes are a content id.  The status files of the model:
\*   1: "Package: foo / Version: 1.0 / Architecture: amd64" and
\*      "Package: foo / Version: 1.0 / Architecture: i386 / Source: bar"
\*   2: "Package: qux / Version: 2.0 / Architecture: all / Source: quxsrc"
\* every other content holds no stanza.
Stanza(pkg, ver, arch, src) ==
    [Package |-> pkg, Version |-> ver, Architecture |-> arch, Source |-> src]

\* dpkg.NewParser(db).Parse(): the stanzas of the bytes read through db.
Parse(content) ==
    CASE content = 1 -> <<Stanza("foo", "1.0", "amd64", ""),
                          Stanza("foo", "1.0", "i386", "bar")>>
      [] content = 2 -> <<Stanza("qux", "2.0", "all", "quxsrc")>>
      [] OTHER -> <<>>

\* hex.EncodeToString(md5.Sum(bytes)): one digest per content.
Md5Hex(content) ==
    CASE content = 0 -> "d41d8cd98f00b204e9800998ecf8427e"
      [] content = 1 -> "md5-of-content-1"
      [] content = 2 -> "md5-of-content-2"
      [] content = 3 -> "md5-of-content-3"
      [] OTHER -> "md5-of-content-4"

\* ------------------------------------------------------------- the archive
\* A tar header and the bytes that follow it.  typ is the Typeflag: "reg" is
\* tar.TypeReg, "sym" any other type.
Entry(name, typ, body) == [name |-> name, typ |-> typ, body |-> body]

EntryVocab ==
    { Entry(<<"a", "status">>, "reg", 1),
      Entry(<<".", "a", "status">>, "reg", 1),
      Entry(<<"a", "status">>, "sym", 0),
      Entry(<<"a", "available">>, "reg", 0),
      Entry(<<"b", "status">>, "reg", 2),
      Entry(<<"b", "available">>, "reg", 0),
      Entry(<<"a", "info", "foo.md5sums">>, "reg", 3),
      Entry(<<".", "a", "info", "foo.md5sums">>, "reg", 4),
      Entry(<<"a", "info", "foo:amd64.md5sums">>, "reg", 4),
      Entry(<<"a", "info", "baz.md5sums">>, "reg", 3) }

Archives == UNION { [1..n -> EntryVocab] : n \in 0..MaxEntries }

\* ------------------------------------------------- the distribution probes
osReleasePath == "etc/os-release"
lsbReleasePath == "etc/lsb-release"

Words == {"Ubuntu", "bionic", "focal", "debian"}

Contents == UNION { [1..n -> Words] : n \in 0..MaxWords }

\* The layer's probe files: the paths that exist, each with its content.
ProbeLayers ==
    UNION { [present -> Contents] : present \in SUBSET {osReleasePath, lsbReleasePath} }

\* --------------------------------------------------------------- the state
VARIABLES
    scanner,      \* "dpkg" or "ubuntu": the scanner whose Scan runs
    archive,      \* the layer's tar archive (dpkg)
    layerFiles,   \* the layer's probe files: path -> content (ubuntu)
    notFoundErr,  \* whether the layer's Files reports "no path exists" as an error
    pc,           \* the position in Scan
    pos,          \* tr: the number of headers the tar reader has returned
    loc,          \* loc: directory -> score
    todo,         \* the keys the range loop has not visited yet
    p,            \* p: the directory being examined
    fn,           \* fn: filepath.Join(p, "status")
    err,          \* err: "nil", "EOF" or "other"
    db,           \* db: the entry the reader stands on, 0 for nil
    pkgs,         \* pkgs: the slice Scan builds
    found,        \* found: package name -> index into pkgs (a pointer)
    result,       \* the returned pair, once pc = "done"
    retAt,        \* the return statement taken
    fault,        \* an I/O operation has failed
    cancelled,    \* ctx has been cancelled
    cancelPhase,  \* the position of Scan when ctx was cancelled
    parsed,       \* the stanzas the parser returned, with the file read
    examined,     \* the directories examined as a package database
    run,          \* 1 for the first call of Scan, 2 for the second
    firstResult   \* the first call's result

vars == <<scanner, archive, layerFiles, notFoundErr, pc, pos, loc, todo, p, fn, err, db,
          pkgs, found, result, retAt, fault, cancelled, cancelPhase, parsed,
          examined, run, firstResult>>

\* A Go slice: nil, or its elements.
NilSlice == [isnil |-> TRUE, elems |-> <<>>]

Slice(elems) == [isnil |-> FALSE, elems |-> elems]

\* append(s, more...)
Append2(s, more) ==
    IF more = <<>> THEN s ELSE Slice(s.elems \o more)

NoResult == [ents |-> NilSlice, err |-> "unset"]

Return(ents, e) == [ents |-> ents, err |-> e]

EmptyMap == [k \in {} |-> 0]

\* The locals of Scan before its first statement.
StartOfScan ==
    /\ pc = "start"
    /\ pos = 0
    /\ loc = EmptyMap
    /\ todo = {}
    /\ p = <<>>
    /\ fn = <<>>
    /\ err = "nil"
    /\ db = 0
    /\ pkgs = NilSlice
    /\ found = EmptyMap
    /\ result = NoResult
    /\ retAt = "none"

Init ==
    /\ \/ /\ scanner = "dpkg"
          /\ archive \in Archives
          /\ layerFiles = EmptyMap
          /\ notFoundErr = FALSE
       \/ /\ scanner = "ubuntu"
          /\ archive = <<>>
          /\ layerFiles \in ProbeLayers
          /\ notFoundErr \in BOOLEAN
    /\ StartOfScan
    /\ fault = FALSE
    /\ cancelled = FALSE
    /\ cancelPhase = "none"
    /\ parsed = <<>>
    /\ examined = {}
    /\ run = 1
    /\ firstResult = NoResult

\* ------------------------------------------------------ dpkg: Scanner.Scan
Ret(ents, e, line) ==
    /\ pc' = "done"
    /\ result' = Return(ents, e)
    /\ retAt' = line

Ghosts == <<parsed, examined, run, firstResult>>

Ctx == <<cancelled, cancelPhase>>

Layer == <<scanner, archive, layerFiles, notFoundErr>>

\* rd, err := layer.Reader(); r, ok := rd.(io.ReadSeeker); tr := tar.NewReader(r)
OpenLayer ==
    /\ scanner = "dpkg" /\ pc = "start"
    /\ pc' = "locate"
    /\ pos' = 0
    /\ loc' = EmptyMap
    /\ UNCHANGED <<Layer, todo, p, fn, err, db, pkgs, found, result, retAt,
                   fault, Ctx, Ghosts>>

\* layer.Reader() fails, or the reader is no io.ReadSeeker.
OpenFail ==
    /\ scanner = "dpkg" /\ pc = "start"
    /\ \E line \in {"line75", "line81"} :
          Ret(NilSlice, "opening layer failed", line)
    /\ fault' = TRUE
    /\ UNCHANGED <<Layer, pos, loc, todo, p, fn, err, db, pkgs, found, Ctx, Ghosts>>

\* loc[filepath.Dir(h.Name)]++ for a regular file named status or available.
Score(scores, h) ==
    IF Base(h.name) \in {"status", "available"} /\ h.typ = "reg"
    THEN LET d == Dir(h.name) IN
         [k \in DOMAIN scores \cup {d} |->
             IF k = d
             THEN (IF d \in DOMAIN scores THEN scores[d] ELSE 0) + 1
             ELSE scores[k]]
    ELSE scores

\* The Find loop: one header.
LocateNext ==
    /\ scanner = "dpkg" /\ pc = "locate"
    /\ pos < Len(archive)
    /\ loc' = Score(loc, archive[pos + 1])
    /\ pos' = pos + 1
    /\ UNCHANGED <<Layer, pc, todo, p, fn, err, db, pkgs, found, result, retAt,
                   fault, Ctx, Ghosts>>

\* The Find loop: io.EOF, break Find; var pkgs []*claircore.Package.
LocateEOF ==
    /\ scanner = "dpkg" /\ pc = "locate"
    /\ pos = Len(archive)
    /\ pc' = "range"
    /\ todo' = DOMAIN loc
    /\ pkgs' = NilSlice
    /\ UNCHANGED <<Layer, pos, loc, p, fn, err, db, found, result, retAt,
                   fault, Ctx, Ghosts>>

\* The Find loop: tr.Next() fails.
LocateErr ==
    /\ scanner = "dpkg" /\ pc = "locate"
    /\ Ret(NilSlice, "reading next header failed", "line96")
    /\ fault' = TRUE
    /\ UNCHANGED <<Layer, pos, loc, todo, p, fn, err, db, pkgs, found, Ctx, Ghosts>>

\* if x != 2 { continue }: the score that makes a directory a database.
IsDatabase(x) == x = 2

\* for p, x := range loc, in the order the map yields: a skipped directory.
RangeSkip ==
    /\ scanner = "dpkg" /\ pc = "range"
    /\ \E d \in todo :
          /\ ~IsDatabase(loc[d])
          /\ todo' = todo \ {d}
    /\ UNCHANGED <<Layer, pc, pos, loc, p, fn, err, db, pkgs, found, result,
                   retAt, fault, Ctx, Ghosts>>

\* A directory of score 2: r.Seek(0, io.SeekStart), tr = tar.NewReader(r),
\* fn := filepath.Join(p, "status"), var db io.Reader.
RangeExamine ==
    /\ scanner = "dpkg" /\ pc = "range"
    /\ \E d \in todo :
          /\ IsDatabase(loc[d])
          /\ todo' = todo \ {d}
          /\ p' = d
          /\ fn' = Join(d, "status")
          /\ examined' = examined \cup {d}
    /\ pos' = 0
    /\ db' = 0
    /\ pc' = "status"
    /\ UNCHANGED <<Layer, loc, err, pkgs, found, result, retAt, fault, Ctx,
                   parsed, run, firstResult>>

\* A directory of score 2 and r.Seek fails.
RangeSeekFail ==
    /\ scanner = "dpkg" /\ pc = "range"
    /\ \E d \in todo :
          /\ IsDatabase(loc[d])
          /\ todo' = todo \ {d}
          /\ p' = d
          /\ examined' = examined \cup {d}
    /\ Ret(NilSlice, "unable to seek reader", "line120")
    /\ fault' = TRUE
    /\ UNCHANGED <<Layer, pos, loc, fn, err, db, pkgs, found, Ctx, parsed, run,
                   firstResult>>

\* The range loop is over: return pkgs, nil.
RangeDone ==
    /\ scanner = "dpkg" /\ pc = "range"
    /\ todo = {}
    /\ Ret(pkgs, "nil", "line213")
    /\ UNCHANGED <<Layer, pos, loc, todo, p, fn, err, db, pkgs, found, fault,
                   Ctx, Ghosts>>

\* for h, err = tr.Next(); err == nil; h, err = tr.Next(): one header;
\* if c := filepath.Clean(h.Name); c == fn { db = tr; break }
StatusNext ==
    /\ scanner = "dpkg" /\ pc = "status"
    /\ pos < Len(archive)
    /\ pos' = pos + 1
    /\ err' = "nil"
    /\ IF Clean(archive[pos + 1].name) = fn
       THEN db' = pos + 1 /\ pc' = "switch"
       ELSE UNCHANGED <<db, pc>>
    /\ UNCHANGED <<Layer, loc, todo, p, fn, pkgs, found, result, retAt, fault,
                   Ctx, Ghosts>>

\* tr.Next() returns io.EOF: the loop ends.
StatusEOF ==
    /\ scanner = "dpkg" /\ pc = "status"
    /\ pos = Len(archive)
    /\ err' = "EOF"
    /\ pc' = "switch"
    /\ UNCHANGED <<Layer, pos, loc, todo, p, fn, db, pkgs, found, result, retAt,
                   fault, Ctx, Ghosts>>

\* tr.Next() fails: the loop ends.
StatusErr ==
    /\ scanner = "dpkg" /\ pc = "status"
    /\ err' = "other"
    /\ pc' = "switch"
    /\ fault' = TRUE
    /\ UNCHANGED <<Layer, pos, loc, todo, p, fn, db, pkgs, found, result, retAt,
                   Ctx, Ghosts>>

\* The switch with its db == nil case first.
LoopOutcomeDbFirst(e, d) ==
    CASE d = 0 -> "panic"
      [] e = "EOF" -> "absent"
      [] e # "nil" -> "error"
      [] OTHER -> "parse"

\* The switch without its io.EOF case.
LoopOutcomeNoEOF(e, d) ==
    CASE e # "nil" -> "error"
      [] d = 0 -> "panic"
      [] OTHER -> "parse"

\* switch { case errors.Is(err, io.EOF): ... case err != nil: ...
\*          case db == nil: panic }
LoopOutcome(e, d) ==
    CASE e = "EOF" -> "absent"
      [] e # "nil" -> "error"
      [] d = 0 -> "panic"
      [] OTHER -> "parse"

\* "Check what happened in the above loop."
AfterStatusLoop ==
    /\ scanner = "dpkg" /\ pc = "switch"
    /\ LET o == LoopOutcome(err, db) IN
       CASE o = "absent" -> Ret(NilSlice, "nil", "line138")
         [] o = "error" ->
              Ret(NilSlice, "reading status file from layer failed", "line140")
         [] o = "panic" -> pc' = "panic" /\ UNCHANGED <<result, retAt>>
         [] OTHER -> pc' = "parse" /\ UNCHANGED <<result, retAt>>
    /\ UNCHANGED <<Layer, pos, loc, todo, p, fn, err, db, pkgs, found, fault,
                   Ctx, Ghosts>>

\* The conversion with a source package that is given no version.
ToPackageSourceUnversioned(pkg, statusPath) ==
    [Name |-> pkg.Package,
     Version |-> pkg.Version,
     Kind |-> "BINARY",
     Arch |-> pkg.Architecture,
     PackageDB |-> statusPath,
     RepositoryHint |-> "",
     Source |-> IF pkg.Source # ""
                THEN <<[Name |-> pkg.Source,
                        Kind |-> "SOURCE",
                        Version |-> "",
                        PackageDB |-> statusPath]>>
                ELSE <<>>]

\* p := &claircore.Package{...}; if pkg.Source != "" { p.Source = ... }
\* A pointer that may be nil is a sequence of at most one record.
ToPackage(pkg, statusPath) ==
    [Name |-> pkg.Package,
     Version |-> pkg.Version,
     Kind |-> "BINARY",
     Arch |-> pkg.Architecture,
     PackageDB |-> statusPath,
     RepositoryHint |-> "",
     Source |-> IF pkg.Source # ""
                THEN <<[Name |-> pkg.Source,
                        Kind |-> "SOURCE",
                        Version |-> pkg.Version,
                        PackageDB |-> statusPath]>>
                ELSE <<>>]

\* found[p.Name] = p, for each stanza in turn: a name keeps its last package.
\* base is len(pkgs) before the loop.
FoundMap(stanzas, base) ==
    [n \in {stanzas[i].Package : i \in 1..Len(stanzas)} |->
        base + CHOOSE i \in 1..Len(stanzas) :
                  /\ stanzas[i].Package = n
                  /\ \A j \in 1..Len(stanzas) : stanzas[j].Package = n => j <= i]

\* found := make(map...); for _, pkg := range dpkg.NewParser(db).Parse() {...}
ParseStatus ==
    /\ scanner = "dpkg" /\ pc = "parse"
    /\ LET stanzas == Parse(archive[db].body) IN
          /\ pkgs' = Append2(pkgs, [i \in 1..Len(stanzas) |-> ToPackage(stanzas[i], fn)])
          /\ found' = FoundMap(stanzas, Len(pkgs.elems))
          /\ parsed' = parsed \o [i \in 1..Len(stanzas) |->
                           [stanza |-> stanzas[i], file |-> archive[db].name]]
    /\ pc' = "reset"
    /\ UNCHANGED <<Layer, pos, loc, todo, p, fn, err, db, result, retAt, fault,
                   Ctx, examined, run, firstResult>>

\* "Reset the tar reader, again.": r.Seek(0, io.SeekStart); tr = tar.NewReader(r)
ResetReader ==
    /\ scanner = "dpkg" /\ pc = "reset"
    /\ pos' = 0
    /\ pc' = "info"
    /\ UNCHANGED <<Layer, loc, todo, p, fn, err, db, pkgs, found, result, retAt,
                   fault, Ctx, Ghosts>>

\* The second r.Seek fails.
ResetFail ==
    /\ scanner = "dpkg" /\ pc = "reset"
    /\ Ret(NilSlice, "resetting tar reader failed", "line177")
    /\ fault' = TRUE
    /\ UNCHANGED <<Layer, pos, loc, todo, p, fn, err, db, pkgs, found, Ctx, Ghosts>>

\* prefix := filepath.Join(p, "info") + "/";
\* strings.HasPrefix(h.Name, prefix) && strings.HasSuffix(h.Name, suffix)
IsMetadata(name, dir) ==
    /\ HasPrefix(name, Join(dir, "info"))
    /\ HasSuffix(name)

\* n := filepath.Base(h.Name); n = strings.TrimSuffix(n, suffix); n = n[:i]
MetadataPackage(name) == CutArch(TrimSuffix(Base(name)))

\* Whether the header is a metadata file of a package in found.
MetadataHit(h) ==
    /\ IsMetadata(h.name, p)
    /\ MetadataPackage(h.name) \in DOMAIN found

\* p.RepositoryHint = hex.EncodeToString(hash.Sum(nil)), through the pointer.
SetHint(s, i, hint) ==
    [s EXCEPT !.elems[i].RepositoryHint = hint]

\* The md5sums loop: one header, io.Copy succeeds where it is called.
InfoNext ==
    /\ scanner = "dpkg" /\ pc = "info"
    /\ pos < Len(archive)
    /\ pos' = pos + 1
    /\ err' = "nil"
    /\ LET h == archive[pos + 1] IN
       IF MetadataHit(h)
       THEN pkgs' = SetHint(pkgs, found[MetadataPackage(h.name)], Md5Hex(h.body))
       ELSE UNCHANGED pkgs
    /\ UNCHANGED <<Layer, pc, loc, todo, p, fn, db, found, result, retAt, fault,
                   Ctx, Ghosts>>

\* The md5sums loop: io.Copy(hash, tr) fails; "unable to read package metadata".
InfoCopyFail ==
    /\ scanner = "dpkg" /\ pc = "info"
    /\ pos < Len(archive)
    /\ MetadataHit(archive[pos + 1])
    /\ pos' = pos + 1
    /\ err' = "nil"
    /\ fault' = TRUE
    /\ UNCHANGED <<Layer, pc, loc, todo, p, fn, db, pkgs, found, result, retAt,
                   Ctx, Ghosts>>

\* The md5sums loop ends on io.EOF; on to the next directory.
InfoEOF ==
    /\ scanner = "dpkg" /\ pc = "info"
    /\ pos = Len(archive)
    /\ err' = "EOF"
    /\ pc' = "range"
    /\ UNCHANGED <<Layer, pos, loc, todo, p, fn, db, pkgs, found, result, retAt,
                   fault, Ctx, Ghosts>>

\* The md5sums loop ends on any other error of tr.Next() as well.
InfoErr ==
    /\ scanner = "dpkg" /\ pc = "info"
    /\ err' = "other"
    /\ pc' = "range"
    /\ fault' = TRUE
    /\ UNCHANGED <<Layer, pos, loc, todo, p, fn, db, pkgs, found, result, retAt,
                   Ctx, Ghosts>>

\* The caller cancels ctx while Scan stands before a read of the archive.
Cancel ==
    /\ scanner = "dpkg" /\ pc \in {"locate", "status", "info"}
    /\ ~cancelled
    /\ cancelled' = TRUE
    /\ cancelPhase' = pc
    /\ UNCHANGED <<Layer, pc, pos, loc, todo, p, fn, err, db, pkgs, found,
                   result, retAt, fault, Ghosts>>

\* ------------------------------------------ ubuntu: DistributionScanner.Scan
ubuntuRegexes ==
    << [release |-> "Artful", codename |-> "artful"],
       [release |-> "Bionic", codename |-> "bionic"],
       [release |-> "Cosmic", codename |-> "cosmic"],
       [release |-> "Disco", codename |-> "disco"],
       [release |-> "Precise", codename |-> "precise"],
       [release |-> "Trusty", codename |-> "trusty"],
       [release |-> "Xenial", codename |-> "xenial"],
       [release |-> "Eoan", codename |-> "eoan"],
       [release |-> "Focal", codename |-> "focal"],
       [release |-> "Impish", codename |-> "impish"] >>

\* (?i): the match ignores case.
ToLower(w) == IF w = "Ubuntu" THEN "ubuntu" ELSE w

\* (?is)\bubuntu\b.*\b<codename>\b on a content of words: the word ubuntu,
\* and after it the codename.
Match(ur, buff) ==
    \E i, j \in 1..Len(buff) :
        /\ i < j
        /\ ToLower(buff[i]) = "ubuntu"
        /\ ToLower(buff[j]) = ur.codename

releaseToDist(release) == [Name |-> "Ubuntu", Release |-> release]

\* parse: the distribution of the first regexp that matches, nil (<<>>) if none.
parse(buff) ==
    IF \E k \in 1..Len(ubuntuRegexes) : Match(ubuntuRegexes[k], buff)
    THEN LET k == CHOOSE k \in 1..Len(ubuntuRegexes) :
                     /\ Match(ubuntuRegexes[k], buff)
                     /\ \A m \in 1..(k - 1) : ~Match(ubuntuRegexes[m], buff)
         IN <<releaseToDist(ubuntuRegexes[k].release)>>
    ELSE <<>>

DpkgLocals == <<pos, loc, p, fn, err, db, pkgs, found>>

\* Layer.Files(paths...): what a call may return.  It returns the mapping
\* of the paths that exist to their content; it fails on an unreadable
\* archive.  When no path exists it returns an empty mapping or, on a layer
\* with notFoundErr, an error.
Files ==
    {[map |-> EmptyMap, err |-> "unreadable"]}
    \cup (IF DOMAIN layerFiles = {} /\ notFoundErr
          THEN {[map |-> EmptyMap, err |-> "not found"]}
          ELSE {[map |-> layerFiles, err |-> "nil"]})

\* files, err := l.Files(osReleasePath, lsbReleasePath)
\* if err != nil { return nil, nil }
CallFiles ==
    /\ scanner = "ubuntu" /\ pc = "start"
    /\ \E r \in Files :
          /\ IF r.err # "nil"
             THEN Ret(NilSlice, "nil", "line106") /\ UNCHANGED todo
             ELSE /\ todo' = DOMAIN r.map
                  /\ pc' = "rangeFiles"
                  /\ UNCHANGED <<result, retAt>>
          /\ fault' = (fault \/ r.err = "unreadable")
    /\ UNCHANGED <<Layer, DpkgLocals, Ctx, Ghosts>>

\* for _, buff := range files, in the order the map yields; todo is the keys
\* of files not yet visited, and files[f] is layerFiles[f].
RangeFile ==
    /\ scanner = "ubuntu" /\ pc = "rangeFiles"
    /\ \E f \in todo :
          LET dist == parse(layerFiles[f]) IN
          IF dist # <<>>
          THEN Ret(Slice(dist), "nil", "line111") /\ UNCHANGED todo
          ELSE todo' = todo \ {f} /\ UNCHANGED <<pc, result, retAt>>
    /\ UNCHANGED <<Layer, DpkgLocals, fault, Ctx, Ghosts>>

\* return []*claircore.Distribution{}, nil
RangeFilesDone ==
    /\ scanner = "ubuntu" /\ pc = "rangeFiles"
    /\ todo = {}
    /\ Ret(Slice(<<>>), "nil", "line114")
    /\ UNCHANGED <<Layer, DpkgLocals, todo, fault, Ctx, Ghosts>>

\* ------------------------------------------------------- a second call
\* Scan is called again on the same layer, with a context of its own.
Rescan ==
    /\ pc = "done" /\ run = 1
    /\ run' = 2
    /\ firstResult' = result
    /\ pc' = "start"
    /\ pos' = 0
    /\ loc' = EmptyMap
    /\ todo' = {}
    /\ p' = <<>>
    /\ fn' = <<>>
    /\ err' = "nil"
    /\ db' = 0
    /\ pkgs' = NilSlice
    /\ found' = EmptyMap
    /\ result' = NoResult
    /\ retAt' = "none"
    /\ cancelled' = FALSE
    /\ cancelPhase' = "none"
    /\ parsed' = <<>>
    /\ examined' = {}
    /\ UNCHANGED <<Layer, fault>>

\* ------------------------------------------------------ the specifications
DpkgStep ==
    \/ OpenLayer \/ OpenFail
    \/ LocateNext \/ LocateEOF \/ LocateErr
    \/ RangeSkip \/ RangeExamine \/ RangeSeekFail \/ RangeDone
    \/ StatusNext \/ StatusEOF \/ StatusErr \/ AfterStatusLoop
    \/ ParseStatus \/ ResetReader \/ ResetFail
    \/ InfoNext \/ InfoCopyFail \/ InfoEOF \/ InfoErr

UbuntuStep ==
    \/ CallFiles \/ RangeFile \/ RangeFilesDone

\* One call of Scan, its context never cancelled.
Next == DpkgStep \/ UbuntuStep

Spec == Init /\ [][Next]_vars

\* One call of Scan by a caller that may cancel the context.
NextCancel == Next \/ Cancel

SpecCancel == Init /\ [][NextCancel]_vars

\* Two calls of Scan on the same layer.
NextRescan == Next \/ Rescan

SpecRescan == Init /\ [][NextRescan]_vars

\* ------------------------------------------------------------- the claims
\* What the archive holds, read off its entries.
AllDirs == { Dir(archive[i].name) : i \in 1..Len(archive) }

RegularIn(d, base) ==
    \E i \in 1..Len(archive) :
        /\ archive[i].typ = "reg"
        /\ Base(archive[i].name) = base
        /\ Dir(archive[i].name) = d

HoldsBoth(d) == RegularIn(d, "status") /\ RegularIn(d, "available")

Absent == Return(NilSlice, "nil")

ScanErrors ==
    { "opening layer failed", "reading next header failed", "unable to seek reader",
      "reading status file from layer failed", "resetting tar reader failed" }

\* C1: a directory is examined as a package database only if it holds both a
\* regular status and a regular available file, and, when the range loop runs
\* to its end without an I/O failure, every directory that holds both has
\* been examined.
C1_ExaminedIffBoth ==
    scanner = "dpkg" =>
        /\ \A d \in examined : HoldsBoth(d)
        /\ (pc = "done" /\ retAt = "line213" /\ ~fault) =>
               \A d \in AllDirs : HoldsBoth(d) => d \in examined

\* C2: Scan never panics: the panic branch of the switch is never taken, Scan
\* is never stuck before its return, and what it returns is a (packages,
\* error) pair, with no packages beside an error.
C2_NeverPanics ==
    /\ pc # "panic"
    /\ pc = "switch" => LoopOutcome(err, db) # "panic"
    /\ (scanner = "dpkg" /\ pc # "done") => ENABLED DpkgStep
    /\ pc = "done" =>
          /\ result.err \in ScanErrors \cup {"nil"}
          /\ result.err # "nil" => result.ents = NilSlice

\* C2's case: the status file was counted in the locate pass, the extract
\* pass did not find it, and Scan returned a failure.
C2_StatusCountedNotFound ==
    /\ scanner = "dpkg" /\ pc = "done"
    /\ p \in examined
    /\ HoldsBoth(p)
    /\ db = 0
    /\ result = Return(NilSlice, "reading status file from layer failed")

\* C3: on a layer without the scanner's probe files Scan returns (nil, nil),
\* barring an I/O failure.
C3_AbsentWithoutProbeFiles ==
    (pc = "done" /\ ~fault) =>
        /\ (scanner = "ubuntu" /\ DOMAIN layerFiles = {}) => result = Absent
        /\ (scanner = "dpkg" /\ ~ \E d \in AllDirs : HoldsBoth(d)) => result = Absent

\* The release of the earliest signature of ubuntuRegexes the content matches,
\* "" if it matches none.
C4_Release(content) ==
    LET hits == { k \in 1..Len(ubuntuRegexes) : Match(ubuntuRegexes[k], content) } IN
    IF hits = {} THEN ""
    ELSE ubuntuRegexes[CHOOSE k \in hits : \A m \in hits : k <= m].release

\* The release C4 expects: that of the first file, in the order os-release,
\* lsb-release, whose content matches a signature.
C4_Expected ==
    LET os == IF osReleasePath \in DOMAIN layerFiles THEN C4_Release(layerFiles[osReleasePath]) ELSE ""
        lsb == IF lsbReleasePath \in DOMAIN layerFiles THEN C4_Release(layerFiles[lsbReleasePath]) ELSE ""
    IN IF os # "" THEN os ELSE lsb

\* C4: when a probe file exists, Scan returns the one distribution of the
\* first matching file in probe order and of its earliest matching signature,
\* and an empty non-nil slice when nothing matches.
C4_FirstFileFirstSignature ==
    (scanner = "ubuntu" /\ pc = "done" /\ ~fault /\ DOMAIN layerFiles # {}) =>
        /\ result.err = "nil"
        /\ ~result.ents.isnil
        /\ IF C4_Expected = ""
           THEN result.ents.elems = <<>>
           ELSE /\ Len(result.ents.elems) = 1
                /\ result.ents.elems[1].Release = C4_Expected

C6_MetadataNames(n) ==
    CASE n = "foo" -> {"foo.md5sums", "foo:amd64.md5sums"}
      [] n = "baz" -> {"baz.md5sums"}
      [] OTHER -> {}

\* The entries of the archive that are metadata files of package pk.
C6_MetadataOf(pk) ==
    { j \in 1..Len(archive) :
        \E x \in C6_MetadataNames(pk.Name) :
            Clean(archive[j].name) = Join(Dir(pk.PackageDB), "info") \o <<x>> }

\* C6: in a package list Scan returns after no I/O failure, a package of a
\* directory with a regular status and a regular available file has, when the
\* archive holds a metadata file of it, the digest of such a file as its
\* RepositoryHint, and else none.
C6_HintIsDigest ==
    (scanner = "dpkg" /\ pc = "done" /\ ~fault /\ ~result.ents.isnil) =>
        \A i \in 1..Len(result.ents.elems) :
            LET pk == result.ents.elems[i] IN
            HoldsBoth(Dir(pk.PackageDB)) =>
            IF C6_MetadataOf(pk) = {}
            THEN pk.RepositoryHint = ""
            ELSE pk.RepositoryHint \in { Md5Hex(archive[j].body) : j \in C6_MetadataOf(pk) }

\* C7: the second call of Scan on the same layer returns what the first
\* returned, barring an I/O failure.
C7_SameFindings ==
    (run = 2 /\ pc = "done" /\ ~fault) => result = firstResult

\* C8: a Scan whose context was cancelled during a pass returns, when no
\* I/O operation failed, a cancellation failure: not a package list, not
\* absent, not one of Scan's other errors.
C8_CancelObserved ==
    (scanner = "dpkg" /\ pc = "done" /\ cancelPhase # "none" /\ ~fault) =>
        /\ result.err # "nil"
        /\ result.err \notin ScanErrors

\* C9: when the search of the status file ends on io.EOF Scan returns
\* (nil, nil), and when it ends on another error Scan returns that error and
\* no packages.
C9_EOFIsAbsent ==
    [][ (pc = "switch" /\ pc' # "switch") =>
            /\ err = "EOF" => (pc' = "done" /\ result' = Absent)
            /\ err = "other" =>
                  /\ pc' = "done"
                  /\ result' = Return(NilSlice, "reading status file from layer failed")
      ]_vars

\* C9's case: an examined directory whose status file the archive does not
\* hold, and Scan has returned (nil, nil).
C9_ArchiveEndedBeforeStatus ==
    /\ scanner = "dpkg" /\ pc = "done"
    /\ p \in examined
    /\ ~ \E i \in 1..Len(archive) : Clean(archive[i].name) = Join(p, "status")
    /\ err = "EOF"
    /\ result = Absent

\* C10: when Scan returns without error, its result holds, for every
\* directory with a regular status and a regular available file, the packages
\* of a regular status file of that directory.
C10_NoDatabaseDropped ==
    (scanner = "dpkg" /\ pc = "done" /\ result.err = "nil") =>
        \A d \in AllDirs :
            HoldsBoth(d) =>
                \E j \in 1..Len(archive) :
                    /\ archive[j].typ = "reg"
                    /\ Clean(archive[j].name) = Join(d, "status")
                    /\ \A k \in 1..Len(Parse(archive[j].body)) :
                          \E i \in 1..Len(result.ents.elems) :
                              /\ result.ents.elems[i].Name = Parse(archive[j].body)[k].Package
                              /\ result.ents.elems[i].Arch = Parse(archive[j].body)[k].Architecture
                              /\ result.ents.elems[i].PackageDB = Join(d, "status")

====
